---- MODULE Spec2Model ----
(***************************************************************************)
(* A model of the Athena adapter of src/src/athena-sql-db.ts: the facade   *)
(* AthenaSqlDatabase (constructor, fromDataSourceParams, getTableInfo),    *)
(* the schema loader (getTableAndColumnsName, formatToSqlTable), the       *)
(* validators (verifyListTablesExistInDatabase) and the formatter          *)
(* (generateTableInfoFromTables).                                          *)
(*                                                                         *)
(* Text is modelled by TLA+ strings, concatenated with \o as the template  *)
(* literals of the source concatenate.  An optional value (a parameter or  *)
(* field that may be undefined) is the empty tuple when absent and the     *)
(* one-element tuple <<v>> when present.                                   *)
(***************************************************************************)
EXTENDS Integers, Sequences, FiniteSets, TLC

(***************************************************************************)
(* Bounds of the model.                                                    *)
(***************************************************************************)
\* longest information-schema result the query client returns
MaxRows == 3
\* longest include, ignore or target list
MaxList == 2

(***************************************************************************)
(* Optional values.                                                        *)
(***************************************************************************)
None == <<>>
Some(v) == <<v>>
IsSome(o) == o # <<>>
Get(o) == o[1]

\* `${x}` of an undefined x, and the value an absent row field compares as
Undefined == "undefined"

SeqsUpTo(S, n) == UNION {[1..k -> S] : k \in 0..n}

Min(S) == CHOOSE x \in S : \A y \in S : x <= y

\* Array.prototype.includes
Includes(list, x) == \E i \in 1..Len(list) : list[i] = x

\* whether text s holds sub as a contiguous substring
Contains(s, sub) ==
  \E i \in 1..(Len(s) - Len(sub) + 1) : SubSeq(s, i, i + Len(sub) - 1) = sub

\* whether text s begins with pre
StartsWith(s, pre) == Len(pre) <= Len(s) /\ SubSeq(s, 1, Len(pre)) = pre

\* the decimal text of a natural number, as `${n}` renders it
Digit(d) == SubSeq("0123456789", d + 1, d + 1)
RECURSIVE ToStr(_)
ToStr(n) == IF n < 10 THEN Digit(n) ELSE ToStr(n \div 10) \o Digit(n % 10)

(***************************************************************************)
(* The inputs: table names, information-schema rows, configurations.       *)
(***************************************************************************)
TableNames == {"t", "u"}

\* rows of INFORMATION_SCHEMA.COLUMNS as the query client returns them
RawRows ==
  { [table_name |-> "t", column_name |-> "id", data_type |-> "int", is_nullable |-> "NO"],
    [table_name |-> "t", column_name |-> "name", data_type |-> "varchar", is_nullable |-> "YES"],
    [table_name |-> "u", column_name |-> "id", data_type |-> Undefined, is_nullable |-> Undefined],
    [table_name |-> "u", column_name |-> "name", data_type |-> "varchar", is_nullable |-> "yes"] }

SchemaResults == SeqsUpTo(RawRows, MaxRows)

\* the rows of the schemas the facade is called on: one column per table
FacadeRows == {r \in RawRows : r.column_name = "id"}

FacadeSchemas == SeqsUpTo(FacadeRows, MaxRows)

NameLists == SeqsUpTo(TableNames, MaxList)

OptNameLists == {None} \cup {Some(l) : l \in NameLists}

\* the description maps a caller supplies: Record<string, string>
DescriptionMaps == { [x \in {"t"} |-> "about t"], [x \in {"t", "u"} |-> "about " \o x] }

OptDescriptions == {None} \cup {Some(d) : d \in DescriptionMaps}

\* the sample row counts a caller names
SampleCounts == {0, 2, 12}

OptSampleCounts == {None, Some(0), Some(2)}

\* AthenaSqlDatabaseDataSourceParams
Configs ==
  [ includesTables : OptNameLists,
    ignoreTables : OptNameLists,
    sampleRowsInTableInfo : OptSampleCounts,
    customDescription : {None, Some([x \in {"t"} |-> "about t"])} ]

\* the configurations that name at most an include list
IncludeConfigs ==
  {cfg \in Configs : /\ cfg.ignoreTables = None
                     /\ cfg.sampleRowsInTableInfo = None
                     /\ cfg.customDescription = None}

\* what a sample query resolves to: null or a non-array, or an array of rows,
\* each row given by its Object.values
NullResult == [array |-> FALSE, rows |-> <<>>]
ArrayResult(rows) == [array |-> TRUE, rows |-> rows]
SampleResults == { ArrayResult(<<>>), ArrayResult(<< <<"1", "a">> >>) }

\* field initialiser of sampleRowsInTableInfo
DefaultSampleRows == 3

\* appDataSource.database
Database == "db"

(***************************************************************************)
(* Schema loader.                                                          *)
(***************************************************************************)
\* the loop of formatToSqlTable, sqlTable being the list built so far
RECURSIVE FoldRows(_, _)
FoldRows(sqlTable, rows) ==
  IF rows = <<>> THEN sqlTable
  ELSE LET oneResult == Head(rows)
           sqlColumn == [ columnName |-> oneResult.column_name,
                          dataType |-> oneResult.data_type,
                          isNullable |-> (oneResult.is_nullable = "YES") ]
           found == {i \in 1..Len(sqlTable) : sqlTable[i].tableName = oneResult.table_name}
       IN IF found # {}
            THEN FoldRows([sqlTable EXCEPT ![Min(found)].columns = Append(@, sqlColumn)],
                          Tail(rows))
            ELSE FoldRows(Append(sqlTable, [ tableName |-> oneResult.table_name,
                                             columns |-> <<sqlColumn>> ]),
                          Tail(rows))

\* a fold that looks for the row's table at the end of the list only
RECURSIVE FoldAdjacentRows(_, _)
FoldAdjacentRows(sqlTable, rows) ==
  IF rows = <<>> THEN sqlTable
  ELSE LET oneResult == Head(rows)
           sqlColumn == [ columnName |-> oneResult.column_name,
                          dataType |-> oneResult.data_type,
                          isNullable |-> (oneResult.is_nullable = "YES") ]
       IN IF Len(sqlTable) > 0 /\ sqlTable[Len(sqlTable)].tableName = oneResult.table_name
            THEN FoldAdjacentRows([sqlTable EXCEPT ![Len(sqlTable)].columns = Append(@, sqlColumn)],
                                  Tail(rows))
            ELSE FoldAdjacentRows(Append(sqlTable, [ tableName |-> oneResult.table_name,
                                                     columns |-> <<sqlColumn>> ]),
                                  Tail(rows))

formatToSqlTableAdjacent(rawResultsTableAndColumn) ==
  FoldAdjacentRows(<<>>, rawResultsTableAndColumn)

formatToSqlTable(rawResultsTableAndColumn) == FoldRows(<<>>, rawResultsTableAndColumn)

\* the query text of getTableAndColumnsName
SchemaSql ==
  "SELECT " \o "TABLE_NAME AS table_name, " \o "COLUMN_NAME AS column_name, "
  \o "DATA_TYPE AS data_type, " \o "IS_NULLABLE AS is_nullable "
  \o "FROM INFORMATION_SCHEMA.COLUMNS " \o "WHERE TABLE_SCHEMA = '" \o Database \o "';"

(***************************************************************************)
(* Validators.                                                             *)
(***************************************************************************)
\* a validator that looks at the first name of the list only
verifyFirstNameOnly(tablesFromDatabase, listTables, errorPrefixMsg) ==
  LET onlyTableNames == [i \in 1..Len(tablesFromDatabase) |-> tablesFromDatabase[i].tableName]
  IN IF Len(listTables) = 0 \/ Includes(onlyTableNames, listTables[1]) THEN None
     ELSE Some(errorPrefixMsg \o " the table " \o listTables[1]
               \o " was not found in the database")

\* the error verifyListTablesExistInDatabase throws (its message), or None
verifyListTablesExistInDatabase(tablesFromDatabase, listTables, errorPrefixMsg) ==
  LET onlyTableNames == [i \in 1..Len(tablesFromDatabase) |-> tablesFromDatabase[i].tableName]
      missing == {i \in 1..Len(listTables) : ~Includes(onlyTableNames, listTables[i])}
  IN IF missing = {} THEN None
     ELSE Some(errorPrefixMsg \o " the table " \o listTables[Min(missing)]
               \o " was not found in the database")

verifyIncludeTablesExistInDatabase(tablesFromDatabase, includeTables) ==
  verifyListTablesExistInDatabase(tablesFromDatabase, includeTables,
                                  "Include tables not found in database:")

verifyIgnoreTablesExistInDatabase(tablesFromDatabase, ignoreTables_) ==
  verifyListTablesExistInDatabase(tablesFromDatabase, ignoreTables_,
                                  "Ignore tables not found in database:")

(***************************************************************************)
(* Formatter: the text of one table's block.                               *)
(***************************************************************************)
\* Object.keys(customDescription).includes(tableName) ? `${description}\n` : ''
tableCustomDescription(description, currentTable) ==
  IF IsSome(description) /\ currentTable.tableName \in DOMAIN Get(description)
    THEN Get(description)[currentTable.tableName] \o "\n"
    ELSE ""

\* the loop over currentTable.columns.entries(), from the key-th column on
RECURSIVE CreateTableLoop(_, _, _)
CreateTableLoop(query, columns, key) ==
  IF key > Len(columns) THEN query
  ELSE LET currentColumn == columns[key]
           sep == IF key > 1 THEN ", " ELSE ""
       IN CreateTableLoop(query \o sep \o currentColumn.columnName \o " "
                            \o currentColumn.dataType \o " "
                            \o (IF currentColumn.isNullable THEN "" ELSE "NOT NULL"),
                          columns, key + 1)

\* a pseudo-DDL without the line break after the opening parenthesis
sqlCreateTableQueryOneLine(currentTable) ==
  CreateTableLoop("CREATE TABLE " \o currentTable.tableName \o " (",
                  currentTable.columns, 1) \o ") \n"

sqlCreateTableQuery(currentTable) ==
  CreateTableLoop("CREATE TABLE " \o currentTable.tableName \o " (\n",
                  currentTable.columns, 1) \o ") \n"

sqlSelectInfoQuery(currentTable, nbSampleRow_) ==
  "SELECT * FROM " \o currentTable.tableName \o " LIMIT " \o ToStr(nbSampleRow_) \o ";\n"

\* reduce((completeString, x) => `${completeString} ${x}`, '') over texts
RECURSIVE SpaceFold(_, _)
SpaceFold(completeString, values) ==
  IF values = <<>> THEN completeString
  ELSE SpaceFold(completeString \o " " \o Head(values), Tail(values))

columnNamesConcatString(currentTable) ==
  SpaceFold("", [i \in 1..Len(currentTable.columns) |-> currentTable.columns[i].columnName])
  \o "\n"

RECURSIVE RowsLoop(_, _)
RowsLoop(text, rows) ==
  IF rows = <<>> THEN text
  ELSE RowsLoop(text \o SpaceFold("", Head(rows)) \o "\n", Tail(rows))

formatSqlResponseToSimpleTableString(rawResult) ==
  IF ~rawResult.array \/ Len(rawResult.rows) = 0 THEN "" ELSE RowsLoop("", rawResult.rows)

\* what one iteration of the loop of generateTableInfoFromTables appends
TableBlock(description, currentTable, nbSampleRow_, sample) ==
  tableCustomDescription(description, currentTable)
  \o sqlCreateTableQuery(currentTable)
  \o sqlSelectInfoQuery(currentTable, nbSampleRow_)
  \o columnNamesConcatString(currentTable)
  \o sample

(***************************************************************************)
(* Facade: the selection of getTableInfo.                                  *)
(***************************************************************************)
\* whether getTableInfo takes the branch of the explicit target list
TargetGiven(targetTables_) == IsSome(targetTables_) /\ Len(Get(targetTables_)) > 0

\* a selection that looks for the target names among the configured selection
SelectedTablesTargetWithinConfigured(all, includes, ignores, targetTables_) ==
  LET byInclude == IF Len(includes) > 0
                     THEN SelectSeq(all, LAMBDA currentTable : Includes(includes, currentTable.tableName))
                     ELSE all
      byIgnore == IF Len(ignores) > 0
                    THEN SelectSeq(byInclude, LAMBDA currentTable : ~Includes(ignores, currentTable.tableName))
                    ELSE byInclude
  IN IF TargetGiven(targetTables_)
       THEN SelectSeq(byIgnore, LAMBDA currentTable : Includes(Get(targetTables_), currentTable.tableName))
       ELSE byIgnore

\* a selection that keeps the ignored tables instead of dropping them
SelectedTablesIgnoredKept(all, includes, ignores, targetTables_) ==
  LET byInclude == IF Len(includes) > 0
                     THEN SelectSeq(all, LAMBDA currentTable : Includes(includes, currentTable.tableName))
                     ELSE all
      byIgnore == IF Len(ignores) > 0
                    THEN SelectSeq(byInclude, LAMBDA currentTable : Includes(ignores, currentTable.tableName))
                    ELSE byInclude
  IN IF TargetGiven(targetTables_)
       THEN SelectSeq(all, LAMBDA currentTable : Includes(Get(targetTables_), currentTable.tableName))
       ELSE byIgnore

\* selectedTables of getTableInfo when no validation fails
SelectedTables(all, includes, ignores, targetTables_) ==
  LET byInclude == IF Len(includes) > 0
                     THEN SelectSeq(all, LAMBDA currentTable : Includes(includes, currentTable.tableName))
                     ELSE all
      byIgnore == IF Len(ignores) > 0
                    THEN SelectSeq(byInclude, LAMBDA currentTable : ~Includes(ignores, currentTable.tableName))
                    ELSE byInclude
  IN IF TargetGiven(targetTables_)
       THEN SelectSeq(all, LAMBDA currentTable : Includes(Get(targetTables_), currentTable.tableName))
       ELSE byIgnore

\* a validation that refuses a facade whose table list is empty
TargetErrorOnEmptySchema(all, targetTables_) ==
  IF Len(all) = 0 THEN Some("Wrong target table name: no table was loaded")
  ELSE IF TargetGiven(targetTables_)
    THEN verifyListTablesExistInDatabase(all, Get(targetTables_), "Wrong target table name:")
    ELSE None

\* the error the validation of getTableInfo throws, or None
TargetError(all, targetTables_) ==
  IF TargetGiven(targetTables_)
    THEN verifyListTablesExistInDatabase(all, Get(targetTables_), "Wrong target table name:")
    ELSE None

\* a constructor without the check of the two lists
ConstructorNeverThrows(cfg) == FALSE

\* if (config?.includesTables && config?.ignoreTables): an array, even an
\* empty one, is truthy
ConstructorThrows(cfg) == IsSome(cfg.includesTables) /\ IsSome(cfg.ignoreTables)

\* x ?? fallback
OrElse(o, fallback) == IF IsSome(o) THEN Get(o) ELSE fallback

(***************************************************************************)
(* State.                                                                  *)
(***************************************************************************)
VARIABLES
  config,                 \* the configuration the facade was built from, or None
  state,                  \* "none", "configError", "uninitialized", "loading",
                          \* "loadError" or "ready"
  rep,                    \* what the schema query resolved to, or None
  allTables, includesTables, ignoreTables, sampleRowsInTableInfo,
  customDescription,      \* the fields of AthenaSqlDatabase
  pc,                     \* the call in progress: "idle", "await", "returned", "thrown"
  entry,                  \* the operation called: "none", "getTableInfo", "generate"
  targetTables,           \* the argument of getTableInfo
  tables, nbSampleRow, description,  \* the arguments of generateTableInfoFromTables
  idx,                    \* the table the loop of the formatter is at
  globalString,           \* the text built so far, the result once pc = "returned"
  err,                    \* the message of the error thrown, or None
  queries,                \* the query texts handed to the client since the
                          \* operation in progress began, in order
  inflight,               \* queries issued and not yet settled
  settled,                \* per table formatted: how its sample query ended
  logged                  \* console.log calls of the call in progress

facadeVars == <<config, state, rep, allTables, includesTables, ignoreTables,
                sampleRowsInTableInfo, customDescription>>
callVars == <<pc, entry, targetTables, tables, nbSampleRow, description, idx,
              globalString, err, queries, inflight, settled, logged>>
vars == <<facadeVars, callVars>>

Init ==
  /\ config = None
  /\ state = "none"
  /\ rep = None
  /\ allTables = <<>>
  /\ includesTables = <<>>
  /\ ignoreTables = <<>>
  /\ sampleRowsInTableInfo = DefaultSampleRows
  /\ customDescription = None
  /\ pc = "idle"
  /\ entry = "none"
  /\ targetTables = None
  /\ tables = <<>>
  /\ nbSampleRow = 0
  /\ description = None
  /\ idx = 1
  /\ globalString = ""
  /\ err = None
  /\ queries = <<>>
  /\ inflight = 0
  /\ settled = <<>>
  /\ logged = 0

(***************************************************************************)
(* Facade: construction and the asynchronous factory.                      *)
(***************************************************************************)
\* the assignments of the constructor; customDescription is not among them
ConstructorAssigns(cfg) ==
  /\ includesTables' = OrElse(cfg.includesTables, <<>>)
  /\ ignoreTables' = OrElse(cfg.ignoreTables, <<>>)
  /\ sampleRowsInTableInfo' = OrElse(cfg.sampleRowsInTableInfo, sampleRowsInTableInfo)
  /\ UNCHANGED customDescription

\* new AthenaSqlDatabase(config) from a subclass, the factory skipped
Constructor(cfg) ==
  /\ state = "none"
  /\ config' = Some(cfg)
  /\ IF ConstructorThrows(cfg)
       THEN /\ state' = "configError"
            /\ err' = Some("Cannot specify both include_tables and ignoreTables")
            /\ UNCHANGED <<includesTables, ignoreTables, sampleRowsInTableInfo,
                           customDescription>>
       ELSE /\ state' = "uninitialized"
            /\ ConstructorAssigns(cfg)
            /\ UNCHANGED err
  /\ UNCHANGED <<rep, allTables, pc, entry, targetTables, tables, nbSampleRow,
                 description, idx, globalString, queries, inflight, settled, logged>>

\* fromDataSourceParams(fields), up to its await of the schema query
FromDataSourceParams(cfg) ==
  /\ state = "none"
  /\ config' = Some(cfg)
  /\ IF ConstructorThrows(cfg)
       THEN /\ state' = "configError"
            /\ err' = Some("Cannot specify both include_tables and ignoreTables")
            /\ UNCHANGED <<includesTables, ignoreTables, sampleRowsInTableInfo,
                           customDescription, queries, inflight>>
       ELSE /\ state' = "loading"
            /\ ConstructorAssigns(cfg)
            /\ queries' = Append(queries, SchemaSql)
            /\ inflight' = inflight + 1
            /\ UNCHANGED err
  /\ UNCHANGED <<rep, allTables, pc, entry, targetTables, tables, nbSampleRow,
                 description, idx, globalString, settled, logged>>

\* the error of the two validations of fromDataSourceParams, or None
LoadError(loaded) ==
  LET inc == verifyIncludeTablesExistInDatabase(loaded, includesTables)
  IN IF IsSome(inc) THEN inc ELSE verifyIgnoreTablesExistInDatabase(loaded, ignoreTables)

\* the schema query resolves: the rest of fromDataSourceParams
LoadResolve(r) ==
  /\ state = "loading"
  /\ rep' = Some(r)
  /\ inflight' = inflight - 1
  /\ allTables' = formatToSqlTable(r)
  /\ err' = LoadError(formatToSqlTable(r))
  /\ state' = IF IsSome(LoadError(formatToSqlTable(r))) THEN "loadError" ELSE "ready"
  /\ UNCHANGED <<config, includesTables, ignoreTables, sampleRowsInTableInfo,
                 customDescription, pc, entry, targetTables, tables, nbSampleRow,
                 description, idx, globalString, queries, settled, logged>>

\* the schema query rejects: the error propagates out of the factory
LoadReject ==
  /\ state = "loading"
  /\ inflight' = inflight - 1
  /\ err' = Some("query failed")
  /\ state' = "loadError"
  /\ UNCHANGED <<config, rep, allTables, includesTables, ignoreTables,
                 sampleRowsInTableInfo, customDescription, pc, entry, targetTables,
                 tables, nbSampleRow, description, idx, globalString, queries,
                 settled, logged>>

(***************************************************************************)
(* Formatter: the loop of generateTableInfoFromTables.                     *)
(***************************************************************************)
\* how the sample of a table ended: no query (count zero), resolved, rejected
NoQuery == [how |-> "none", raw |-> NullResult]
Resolved(raw) == [how |-> "resolved", raw |-> raw]
Rejected == [how |-> "rejected", raw |-> NullResult]

\* a loop that queries whatever the sample row count is
QueriesAtZero(tbls, n, desc, i, text, done) ==
  IF i > Len(tbls)
    THEN [pc |-> "returned", idx |-> i, globalString |-> text, issued |-> <<>>,
          settled |-> done]
    ELSE [pc |-> "await", idx |-> i, globalString |-> text,
          issued |-> <<sqlSelectInfoQuery(tbls[i], n)>>, settled |-> done]

\* The loop from table i on, text being globalString so far and done the
\* outcomes so far, run to its next await or to its return.  With a count of
\* zero no iteration awaits.
RECURSIVE RunLoop(_, _, _, _, _, _)
RunLoop(tbls, n, desc, i, text, done) ==
  IF i > Len(tbls)
    THEN [pc |-> "returned", idx |-> i, globalString |-> text, issued |-> <<>>,
          settled |-> done]
  ELSE IF n # 0
    THEN [pc |-> "await", idx |-> i, globalString |-> text,
          issued |-> <<sqlSelectInfoQuery(tbls[i], n)>>, settled |-> done]
  ELSE RunLoop(tbls, n, desc, i + 1,
               text \o TableBlock(desc, tbls[i], n,
                                  formatSqlResponseToSimpleTableString(NullResult)),
               Append(done, NoQuery))

\* the call variables after the loop ran on to `next`
Resume(next) ==
  /\ pc' = next.pc
  /\ idx' = next.idx
  /\ globalString' = next.globalString
  /\ settled' = next.settled
  /\ queries' = queries \o next.issued
  /\ inflight' = inflight - 1 + Len(next.issued)

\* the call variables when generateTableInfoFromTables is entered
Enter(tbls, n, desc) ==
  LET next == RunLoop(tbls, n, desc, 1, "", <<>>)
  IN /\ tables' = tbls
     /\ nbSampleRow' = n
     /\ description' = desc
     /\ pc' = next.pc
     /\ idx' = next.idx
     /\ globalString' = next.globalString
     /\ settled' = next.settled
     /\ queries' = next.issued
     /\ inflight' = Len(next.issued)
     /\ err' = None
     /\ logged' = 0

\* generateTableInfoFromTables(tables, appDataSource, nbSampleRow, customDescription),
\* called directly; an undefined tables returns ''
GenerateTableInfoFromTables(tbls, n, desc) ==
  /\ state = "none"
  /\ pc = "idle"
  /\ entry' = "generate"
  /\ targetTables' = None
  /\ Enter(OrElse(tbls, <<>>), n, desc)
  /\ UNCHANGED facadeVars

\* getTableInfo(targetTables), up to its first await or its end
GetTableInfo(target) ==
  /\ state \in {"uninitialized", "ready"}
  /\ pc = "idle"
  /\ entry' = "getTableInfo"
  /\ targetTables' = target
  /\ IF IsSome(TargetError(allTables, target))
       THEN /\ pc' = "thrown"
            /\ err' = TargetError(allTables, target)
            /\ tables' = <<>>
            /\ nbSampleRow' = sampleRowsInTableInfo
            /\ description' = customDescription
            /\ idx' = 1
            /\ globalString' = ""
            /\ settled' = <<>>
            /\ queries' = <<>>
            /\ inflight' = 0
            /\ logged' = 0
       ELSE Enter(SelectedTables(allTables, includesTables, ignoreTables, target),
                  sampleRowsInTableInfo, customDescription)
  /\ UNCHANGED facadeVars

\* the sample query of table idx resolves: the rest of the iteration, then
\* the loop on to the next await
QueryResolve(raw) ==
  /\ pc = "await"
  /\ Resume(RunLoop(tables, nbSampleRow, description, idx + 1,
                    globalString \o TableBlock(description, tables[idx], nbSampleRow,
                                               formatSqlResponseToSimpleTableString(raw)),
                    Append(settled, Resolved(raw))))
  /\ UNCHANGED <<facadeVars, entry, targetTables, tables, nbSampleRow, description,
                 err, logged>>

\* a rejection that is not caught: the call throws
QueryRejectPropagates ==
  /\ pc = "await"
  /\ pc' = "thrown"
  /\ err' = Some("query failed")
  /\ inflight' = inflight - 1
  /\ settled' = Append(settled, Rejected)
  /\ UNCHANGED <<facadeVars, entry, targetTables, tables, nbSampleRow, description,
                 idx, globalString, queries, logged>>

\* the sample query of table idx rejects: the catch logs, sample stays ''
QueryReject ==
  /\ pc = "await"
  /\ logged' = logged + 1
  /\ Resume(RunLoop(tables, nbSampleRow, description, idx + 1,
                    globalString \o TableBlock(description, tables[idx], nbSampleRow, ""),
                    Append(settled, Rejected)))
  /\ UNCHANGED <<facadeVars, entry, targetTables, tables, nbSampleRow, description, err>>

\* the caller takes the result or the error of the finished call
Return ==
  /\ pc \in {"returned", "thrown"}
  /\ pc' = "idle"
  /\ entry' = "none"
  /\ targetTables' = None
  /\ tables' = <<>>
  /\ nbSampleRow' = 0
  /\ description' = None
  /\ idx' = 1
  /\ globalString' = ""
  /\ err' = None
  /\ queries' = <<>>
  /\ inflight' = 0
  /\ settled' = <<>>
  /\ logged' = 0
  /\ UNCHANGED facadeVars

(***************************************************************************)
(* Specifications.                                                         *)
(***************************************************************************)
OptTargets == OptNameLists

\* the facade, built by either path and then called
Next ==
  \/ \E cfg \in Configs : Constructor(cfg)
  \/ \E cfg \in Configs : FromDataSourceParams(cfg)
  \/ \E r \in FacadeSchemas : LoadResolve(r)
  \/ LoadReject
  \/ \E target \in OptTargets : GetTableInfo(target)
  \/ \E raw \in SampleResults : QueryResolve(raw)
  \/ QueryReject
  \/ Return

Spec == Init /\ [][Next]_vars

\* the table lists a caller hands to the formatter
TableLists == {formatToSqlTable(r) : r \in SchemaResults}

OptTableLists == {None} \cup {Some(l) : l \in TableLists}

\* the formatter, called directly
NextFmt ==
  \/ \E tbls \in OptTableLists, n \in SampleCounts, desc \in OptDescriptions :
       GenerateTableInfoFromTables(tbls, n, desc)
  \/ \E raw \in SampleResults : QueryResolve(raw)
  \/ QueryReject
  \/ Return

SpecFmt == Init /\ [][NextFmt]_vars

\* the factory alone, on every schema result
NextLoad ==
  \/ \E cfg \in IncludeConfigs : FromDataSourceParams(cfg)
  \/ \E r \in SchemaResults : LoadResolve(r)
  \/ LoadReject

SpecLoad == Init /\ [][NextLoad]_vars

(***************************************************************************)
(* Vocabulary of the properties.                                           *)
(***************************************************************************)
\* the names of the loaded tables
LoadedNames == {allTables[i].tableName : i \in 1..Len(allTables)}

Elems(list) == {list[i] : i \in 1..Len(list)}

\* the loaded tables whose names are in S, in loaded order
Restrict(S) == SelectSeq(allTables, LAMBDA tb : tb.tableName \in S)

\* the text of a finished formatter call on tbls, table i's sample query
\* having ended as outcomes[i], with the description map desc
RECURSIVE ExpectedText(_, _, _, _, _)
ExpectedText(tbls, n, desc, outcomes, i) ==
  IF i > Len(tbls) THEN ""
  ELSE TableBlock(desc, tbls[i], n,
                  IF outcomes[i].how = "resolved"
                    THEN formatSqlResponseToSimpleTableString(outcomes[i].raw)
                    ELSE "")
       \o ExpectedText(tbls, n, desc, outcomes, i + 1)

\* the decimal text of the sample row counts in use
CountText(n) == CASE n = 0 -> "0" [] n = 2 -> "2" [] n = 3 -> "3" [] n = 12 -> "12"

\* the query the formatter sends for the table named name
SampleSelect(name, n) == "SELECT * FROM " \o name \o " LIMIT " \o CountText(n) \o ";" \o "\n"

(***************************************************************************)
(* C1.  A getTableInfo call whose target list holds a name absent from the *)
(* loaded tables fails with an error naming such a table, and no query is  *)
(* issued during the call, whatever the include and ignore lists and the   *)
(* sample row count are.                                                   *)
(***************************************************************************)
AbsentTargets ==
  IF IsSome(targetTables) THEN Elems(Get(targetTables)) \ LoadedNames ELSE {}

C1_TargetAbsentFails ==
  (entry = "getTableInfo" /\ AbsentTargets # {}) =>
     /\ pc = "thrown"
     /\ queries = <<>>
     /\ inflight = 0
     /\ \E name \in AbsentTargets :
          err = Some("Wrong target table name: the table " \o name
                     \o " was not found in the database")

C1_Witness ==
  /\ state = "ready"
  /\ entry = "getTableInfo"
  /\ pc = "thrown"
  /\ sampleRowsInTableInfo # 0
  /\ Len(ignoreTables) > 0
  /\ IsSome(targetTables)
  /\ AbsentTargets # {}
  /\ Elems(Get(targetTables)) \cap LoadedNames # {}

(***************************************************************************)
(* C2.  Construction with both an include list and an ignore list          *)
(* non-empty fails with the configuration error before the schema query is *)
(* issued, and no ready facade has both lists non-empty.                   *)
(***************************************************************************)
BothListed(cfg) ==
  /\ IsSome(cfg.includesTables) /\ Len(Get(cfg.includesTables)) > 0
  /\ IsSome(cfg.ignoreTables) /\ Len(Get(cfg.ignoreTables)) > 0

C2_BothListsRejected ==
  /\ (IsSome(config) /\ BothListed(Get(config))) =>
        /\ state = "configError"
        /\ err = Some("Cannot specify both include_tables and ignoreTables")
        /\ queries = <<>>
        /\ inflight = 0
        /\ rep = None
  /\ state = "ready" => ~(Len(includesTables) > 0 /\ Len(ignoreTables) > 0)

C2_Witness ==
  /\ state = "configError"
  /\ IsSome(config)
  /\ BothListed(Get(config))

(***************************************************************************)
(* C3.  As claimed: a getTableInfo call given a target list formats        *)
(* exactly the loaded tables named in that list.                           *)
(***************************************************************************)
C3_AnyTargetOverrides ==
  (entry = "getTableInfo" /\ IsSome(targetTables) /\ pc # "thrown") =>
     tables = Restrict(Elems(Get(targetTables)))

(***************************************************************************)
(* C3, amended.  A getTableInfo call given a non-empty target list, all of *)
(* whose names are loaded, formats exactly the loaded tables named in that *)
(* list, in loaded order, whatever the include and ignore lists are; an    *)
(* empty target list is treated as no target list.                         *)
(***************************************************************************)
ConfiguredSelection ==
  IF Len(includesTables) > 0 THEN Restrict(Elems(includesTables))
  ELSE IF Len(ignoreTables) > 0 THEN Restrict(LoadedNames \ Elems(ignoreTables))
  ELSE allTables

C3_NonEmptyTargetOverrides ==
  (entry = "getTableInfo" /\ IsSome(targetTables) /\ pc # "thrown") =>
     tables = IF Len(Get(targetTables)) > 0
                THEN Restrict(Elems(Get(targetTables)))
                ELSE ConfiguredSelection

C3_Witness ==
  /\ state = "ready"
  /\ entry = "getTableInfo"
  /\ pc = "returned"
  /\ IsSome(targetTables)
  /\ Len(ignoreTables) > 0
  /\ Elems(Get(targetTables)) \cap Elems(ignoreTables) # {}
  /\ Len(tables) > 0
  /\ Len(tables) < Len(allTables)

(***************************************************************************)
(* C4.  A getTableInfo call without a target list formats the loaded       *)
(* tables restricted to the include list when it is non-empty, minus the   *)
(* ignore list when it is non-empty, all of them when both are empty, in   *)
(* loaded order.                                                           *)
(***************************************************************************)
C4_ConfiguredSelection ==
  (entry = "getTableInfo" /\ targetTables = None) =>
     /\ pc # "thrown"
     /\ tables = ConfiguredSelection

C4_Witness ==
  /\ state = "ready"
  /\ entry = "getTableInfo"
  /\ targetTables = None
  /\ pc = "returned"
  /\ Len(ignoreTables) > 0
  /\ Len(allTables) = 2
  /\ Len(tables) = 1

(***************************************************************************)
(* C5.  getTableInfo formats with the description map of the construction  *)
(* configuration: the block of every selected table that is a key of that  *)
(* map begins with its description and a line break.                       *)
(***************************************************************************)
C5_ConfiguredDescriptionUsed ==
  (entry = "getTableInfo" /\ pc = "returned") =>
     globalString = ExpectedText(tables, nbSampleRow, Get(config).customDescription,
                                 settled, 1)

(***************************************************************************)
(* C6.  As claimed: formatting table t with columns id (int, not nullable) *)
(* and name (varchar, nullable) at sample count 0 yields text holding      *)
(* CREATE TABLE t (id int NOT NULL, name varchar ) as one substring.       *)
(***************************************************************************)
TableT ==
  [ tableName |-> "t",
    columns |-> << [columnName |-> "id", dataType |-> "int", isNullable |-> FALSE],
                   [columnName |-> "name", dataType |-> "varchar", isNullable |-> TRUE] >> ]

FormattedTableT ==
  entry = "generate" /\ pc = "returned" /\ tables = <<TableT>> /\ nbSampleRow = 0

C6_CreateTableOnOneLine ==
  FormattedTableT =>
     Contains(globalString, "CREATE TABLE t (id int NOT NULL, name varchar )")

(***************************************************************************)
(* C6, amended.  Formatting that table at sample count 0 yields the text   *)
(* CREATE TABLE t ( + line break + id int NOT NULL, name varchar ) + space *)
(* + line break, then SELECT * FROM t LIMIT 0; and the column-name line    *)
(*  id name, and no sample row lines and no query.  In general the         *)
(* pseudo-DDL of a table is CREATE TABLE <name> ( and a line break, the    *)
(* column entries <columnName> <dataType> <NOT NULL or nothing> joined by  *)
(* a comma and a space, then ) and a space and a line break.               *)
(***************************************************************************)
ColumnEntry(c) ==
  c.columnName \o " " \o c.dataType \o " " \o (IF c.isNullable THEN "" ELSE "NOT NULL")

RECURSIVE JoinEntries(_)
JoinEntries(columns) ==
  IF Len(columns) = 0 THEN ""
  ELSE IF Len(columns) = 1 THEN ColumnEntry(columns[1])
  ELSE ColumnEntry(columns[1]) \o ", " \o JoinEntries(Tail(columns))

PseudoDdl(tb) == "CREATE TABLE " \o tb.tableName \o " (\n" \o JoinEntries(tb.columns) \o ") \n"

DescriptionText(tb) ==
  IF IsSome(description) /\ tb.tableName \in DOMAIN Get(description)
    THEN Get(description)[tb.tableName] \o "\n"
    ELSE ""

C6_CreateTableText ==
  /\ FormattedTableT =>
       /\ globalString = DescriptionText(TableT)
                         \o "CREATE TABLE t (\nid int NOT NULL, name varchar ) \n"
                         \o "SELECT * FROM t LIMIT 0;\n"
                         \o " id name\n"
       /\ queries = <<>>
  /\ (entry = "generate" /\ pc = "returned" /\ Len(tables) > 0) =>
       StartsWith(globalString, DescriptionText(tables[1]) \o PseudoDdl(tables[1]))

C6_Witness ==
  /\ FormattedTableT
  /\ description = None
  /\ Contains(globalString, "CREATE TABLE t (\nid int NOT NULL, name varchar ) \n")

(***************************************************************************)
(* C7.  A failing sample query never aborts formatting and never surfaces: *)
(* the call still returns, the block of the table whose query failed holds *)
(* its description, pseudo-DDL, sample-select text and column-name line    *)
(* with an empty sample, and every later table is still formatted and its  *)
(* sample query still issued.                                              *)
(***************************************************************************)
C7_SampleFailureSwallowed ==
  /\ entry = "generate" => (pc # "thrown" /\ err = None)
  /\ (entry = "getTableInfo" /\ pc = "thrown") => (settled = <<>> /\ queries = <<>>)
  /\ logged = Cardinality({i \in 1..Len(settled) : settled[i].how = "rejected"})
  /\ \A i \in 1..Len(settled) :
       (settled[i].how = "rejected" /\ i < Len(tables)) =>
          /\ Len(queries) > i
          /\ queries[i + 1] = SampleSelect(tables[i + 1].tableName, nbSampleRow)
  /\ (entry # "none" /\ pc = "returned") =>
       /\ Len(settled) = Len(tables)
       /\ globalString = ExpectedText(tables, nbSampleRow, description, settled, 1)

C7_Witness ==
  /\ entry = "generate"
  /\ pc = "returned"
  /\ Len(tables) = 2
  /\ settled[1].how = "rejected"
  /\ settled[2].how = "resolved"
  /\ Len(settled[2].raw.rows) > 0
  /\ IsSome(description)
  /\ tables[1].tableName \in DOMAIN Get(description)
  /\ Len(queries) = 2

(***************************************************************************)
(* C8.  The schema loader folds the rows into one table per distinct table *)
(* name, tables in order of first appearance, each table's columns in      *)
(* result order, rows of different tables interleaved or not; a column is  *)
(* nullable iff IS_NULLABLE is exactly "YES"; no rows give no tables.       *)
(***************************************************************************)
FirstRow(rows, name) == Min({k \in 1..Len(rows) : rows[k].table_name = name})

RowsOf(rows, name) == SelectSeq(rows, LAMBDA row : row.table_name = name)

C8_FoldByTableName ==
  IsSome(rep) =>
    LET rows == Get(rep)
    IN /\ LoadedNames = {rows[k].table_name : k \in 1..Len(rows)}
       /\ \A i, j \in 1..Len(allTables) :
            i < j => FirstRow(rows, allTables[i].tableName)
                       < FirstRow(rows, allTables[j].tableName)
       /\ \A i \in 1..Len(allTables) :
            LET mine == RowsOf(rows, allTables[i].tableName)
            IN /\ Len(allTables[i].columns) = Len(mine)
               /\ \A k \in 1..Len(mine) :
                    /\ allTables[i].columns[k].columnName = mine[k].column_name
                    /\ allTables[i].columns[k].dataType = mine[k].data_type
                    /\ allTables[i].columns[k].isNullable = (mine[k].is_nullable = "YES")
                    /\ mine[k].is_nullable \in {"NO", Undefined, "yes"}
                         => ~allTables[i].columns[k].isNullable
       /\ rows = <<>> => allTables = <<>>

C8_Witness ==
  /\ IsSome(rep)
  /\ Len(Get(rep)) = 3
  /\ Get(rep)[1].table_name = "t" /\ Get(rep)[1].is_nullable = "NO"
  /\ Get(rep)[2].table_name = "u" /\ Get(rep)[2].is_nullable = Undefined
  /\ Get(rep)[3].table_name = "t" /\ Get(rep)[3].is_nullable = "YES"
  /\ Len(allTables) = 2
  /\ Len(allTables[1].columns) = 2

(***************************************************************************)
(* C9.  During one formatter call the queries issued are determined: at a  *)
(* non-zero sample row count, one SELECT * FROM <name> LIMIT <n>; per      *)
(* table, in list order, each issued only after the one before it settled, *)
(* never two outstanding; at a count of zero, no query and every sample    *)
(* empty.                                                                  *)
(***************************************************************************)
C9_SequentialSampleQueries ==
  entry # "none" =>
    /\ inflight \in {0, 1}
    /\ inflight = 1 <=> pc = "await"
    /\ Len(queries) = Cardinality({i \in 1..Len(settled) : settled[i].how # "none"}) + inflight
    /\ nbSampleRow = 0 =>
         /\ queries = <<>>
         /\ \A i \in 1..Len(settled) : settled[i].how = "none"
         /\ pc = "returned" =>
              globalString = ExpectedText(tables, 0, description,
                                          [i \in 1..Len(tables) |-> NoQuery], 1)
    /\ nbSampleRow # 0 =>
         /\ Len(queries) <= Len(tables)
         /\ Len(queries) = Len(settled) + inflight
         /\ \A i \in 1..Len(queries) :
              queries[i] = SampleSelect(tables[i].tableName, nbSampleRow)
         /\ pc = "returned" => Len(queries) = Len(tables)

C9_Witness ==
  /\ entry = "generate"
  /\ pc = "returned"
  /\ nbSampleRow = 12
  /\ Len(tables) = 2
  /\ queries = <<"SELECT * FROM u LIMIT 12;\n", "SELECT * FROM t LIMIT 12;\n">>

(***************************************************************************)
(* C10.  As claimed: on a facade built without the factory every           *)
(* getTableInfo call, with or without a target list, raises no error,      *)
(* issues no query and returns the empty text.                             *)
(***************************************************************************)
C10_UninitializedAlwaysEmpty ==
  (state = "uninitialized" /\ entry = "getTableInfo") =>
     /\ pc = "returned"
     /\ err = None
     /\ queries = <<>>
     /\ globalString = ""

(***************************************************************************)
(* C10, amended.  On a facade built without the factory a getTableInfo     *)
(* call without a target list, or with an empty one, raises no error,      *)
(* issues no query and returns the empty text, whatever the include and    *)
(* ignore lists are; a call with a non-empty target list fails with the    *)
(* target-name error, also without issuing a query.                        *)
(***************************************************************************)
C10_UninitializedEmptyOrTargetError ==
  (state = "uninitialized" /\ entry = "getTableInfo") =>
     /\ allTables = <<>>
     /\ queries = <<>>
     /\ inflight = 0
     /\ globalString = ""
     /\ IF TargetGiven(targetTables)
          THEN /\ pc = "thrown"
               /\ err = Some("Wrong target table name: the table " \o Get(targetTables)[1]
                             \o " was not found in the database")
          ELSE /\ pc = "returned"
               /\ err = None

C10_Witness ==
  /\ state = "uninitialized"
  /\ entry = "getTableInfo"
  /\ pc = "returned"
  /\ targetTables = None
  /\ Len(includesTables) > 0
  /\ sampleRowsInTableInfo # 0
  /\ globalString = ""

====
